---- MODULE Spec2Model ----
(***************************************************************************)
(* Diagnostic reasoning engine of Kisaan-Saathi: the two edge functions    *)
(* chat-orchestrator (one conversation turn) and generate-advisory         *)
(* (advisory composition), with the tables they read and write.            *)
(*                                                                         *)
(* Representation.                                                         *)
(*  - A text is a sequence of symbols.  A symbol is one character, or one  *)
(*    of the handlers' canned phrases taken as a single symbol.            *)
(*    String.includes is contiguous-subsequence containment.               *)
(*  - Weights and scores are integers counting twentieths: the weight 0.9  *)
(*    is 18, the score 0.85 is 17, 1.0 is 20.  Weights are multiples of    *)
(*    0.1, so weight * 0.5 is weight \div 2 exactly.  Rounding of binary   *)
(*    floating point sums is not represented.                              *)
(*  - A table is the sequence of its rows in the order a select returns    *)
(*    them.  A conversation's id is identified with its session_id (the    *)
(*    column is UNIQUE).  Timestamps are left out.                         *)
(*  - Both handlers are modelled from the point where the caller's token   *)
(*    has been accepted: a request without a valid token is answered 401   *)
(*    before its body is read and touches no table.                        *)
(*  - A read of the knowledge base by calculateDiseaseProbabilities        *)
(*    succeeds or fails (KbOutcomes).  A failed read inside detectSymptoms *)
(*    or getNextQuestion leaves the handler with no rows, which is the     *)
(*    outcome of a message that matches nothing or of no question          *)
(*    qualifying.                                                          *)
(*  - An insert or update succeeds, except under SpecFaults, where one     *)
(*    write of a request may fail (TurnFaults, AdvisoryFaults).            *)
(***************************************************************************)
EXTENDS Integers, Sequences, FiniteSets, TLC

(***************************************************************************)
(* Bounds of the model.                                                    *)
(***************************************************************************)
\* turns that reach the conversation update, over all sessions
MaxTurns == 2
\* advisory rows
MaxAdvisories == 2
\* symptoms of the weight tables SpecAgg ranges over
MaxAggSymptoms == 3

(***************************************************************************)
(* Texts.                                                                  *)
(***************************************************************************)
Upper == <<"A","B","C","D","E","F","G","H","I","J","K","L","M",
           "N","O","P","Q","R","S","T","U","V","W","X","Y","Z">>
Lower == <<"a","b","c","d","e","f","g","h","i","j","k","l","m",
           "n","o","p","q","r","s","t","u","v","w","x","y","z">>

\* one character of toLowerCase
lowerCase(c) ==
    IF \E k \in 1..Len(Upper) : Upper[k] = c
    THEN Lower[CHOOSE k \in 1..Len(Upper) : Upper[k] = c]
    ELSE c

RECURSIVE toLowerCase(_)
\* String.prototype.toLowerCase
toLowerCase(text) ==
    IF text = <<>> THEN <<>>
    ELSE <<lowerCase(Head(text))>> \o toLowerCase(Tail(text))

\* String.prototype.includes
includes(text, pattern) ==
    \E i \in 0..(Len(text) - Len(pattern)) :
        SubSeq(text, i + 1, i + Len(pattern)) = pattern

\* the characters the regular expression [\s,] matches
Separators == {" ", "\n", "\t", ","}

\* description.split(/[\s,]+/): the maximal runs of characters that are no
\* separators (the empty strings split also yields have no length > 3)
split(description) ==
    LET n == Len(description)
        starts == { i \in 1..n :
                      /\ description[i] \notin Separators
                      /\ (i = 1 \/ description[i - 1] \in Separators) }
        EndOf(i) == CHOOSE j \in i..n :
                      /\ \A k \in i..j : description[k] \notin Separators
                      /\ (j = n \/ description[j + 1] \in Separators)
    IN  { SubSeq(description, i, EndOf(i)) : i \in starts }

\* words.filter(w => w.length > 3)
extractKeywords(description) ==
    { w \in split(description) : Len(w) > 3 }

\* the paragraph break "\n\n" of the response templates
Break == <<"\n", "\n">>
\* the separator of symptomNames.join(', ')
Comma == <<",", " ">>

IntroText(language) ==
    IF language = "hi" THEN <<"[hi] I understand. Let's quickly figure this out.">>
    ELSE <<"I understand. Let's quickly figure this out.">>
NoticedText(language) ==
    IF language = "hi" THEN <<"[hi] I noticed: ">> ELSE <<"I noticed: ">>
IdentifiedText(language) ==
    IF language = "hi"
    THEN <<"[hi] I think I've identified it. Let me prepare a recommendation for you.">>
    ELSE <<"I think I've identified it. Let me prepare a recommendation for you.">>
PromptText(language) ==
    IF language = "hi" THEN <<"[hi] Please tell me what problem you are seeing?">>
    ELSE <<"Please tell me what problem you are seeing?">>

(***************************************************************************)
(* Knowledge base (read-only reference tables).                            *)
(***************************************************************************)
Undefined == "undefined"

crops == <<[id |-> "wheat"], [id |-> "cotton"], [id |-> "rice"]>>

diseases == <<
    [id |-> "d1", disease_code |-> "wheat_rust", crop_id |-> "wheat"],
    [id |-> "d2", disease_code |-> "cotton_wilt", crop_id |-> "cotton"] >>

symptoms == <<
    [id |-> "sy1", symptom_code |-> "orange_pustules",
     description_en |-> <<"o","r","a","n","g","e"," ","p","u","s">>,
     description_hi |-> <<"r","a","t","u","a">>],
    [id |-> "sy2", symptom_code |-> "rust_spots",
     description_en |-> <<"r","u","s","t",","," ","s","p","o","t">>,
     description_hi |-> <<"d","a","a","g">>],
    [id |-> "sy3", symptom_code |-> "leaf_curl",
     description_en |-> <<"c","u","r","l">>,
     description_hi |-> <<"m","o","d">>],
    [id |-> "sy4", symptom_code |-> "wilting",
     description_en |-> <<"w","i","l","t">>,
     description_hi |-> <<"m","u","r","j","h","a">>],
    [id |-> "sy5", symptom_code |-> "yellowing",
     description_en |-> <<"p","a","l","e">>,
     description_hi |-> <<"p","e","e","l","a">>] >>

\* probability_weight in twentieths: 18 is 0.9, 14 is 0.7, 12 is 0.6, 6 is 0.3;
\* the scores 0.8 (sy1, sy2), 0.75 (sy1, sy4) and 0.6 (sy3, sy4) lie on the
\* thresholds of the handlers
symptom_disease_mapping == <<
    [symptom_id |-> "sy1", disease_id |-> "d1", probability_weight |-> 18],
    [symptom_id |-> "sy2", disease_id |-> "d1", probability_weight |-> 14],
    [symptom_id |-> "sy3", disease_id |-> "d2", probability_weight |-> 6],
    [symptom_id |-> "sy4", disease_id |-> "d1", probability_weight |-> 12],
    [symptom_id |-> "sy4", disease_id |-> "d2", probability_weight |-> 18] >>

diagnostic_questions == <<
    [question_code |-> "q_when",
     question_en |-> <<"W","h","e","n","?">>,
     question_hi |-> <<"K","a","b","?">>,
     trigger_symptoms |-> {"leaf_curl"}, priority |-> 2],
    [question_code |-> "q_spread",
     question_en |-> <<"S","p","r","e","a","d","?"," ","W","h","e","n","?">>,
     question_hi |-> <<"F","a","i","l","a","?">>,
     trigger_symptoms |-> {"leaf_curl", "wilting"}, priority |-> 3],
    [question_code |-> "q_water",
     question_en |-> <<"W","a","t","e","r","?">>,
     question_hi |-> <<"P","a","a","n","i","?">>,
     trigger_symptoms |-> {"wilting", "orange_pustules"}, priority |-> 1] >>

\* what the service-role client reads in one call: the tables, and whether the
\* two reads of calculateDiseaseProbabilities come back with an error
KnowledgeBase(kb) ==
    [symptoms |-> symptoms,
     symptom_disease_mapping |-> symptom_disease_mapping,
     symptomsError |-> (kb = "symptomsError"),
     mappingsError |-> (kb = "mappingsError")]

(***************************************************************************)
(* Small helpers.                                                          *)
(***************************************************************************)
\* a JSON object with no keys
EmptyObject == [d \in {} |-> 0]

Range(seq) == { seq[i] : i \in 1..Len(seq) }

Min(a, b) == IF a <= b THEN a ELSE b

RECURSIVE Join(_, _)
\* Array.prototype.join
Join(texts, sep) ==
    IF texts = <<>> THEN <<>>
    ELSE IF Len(texts) = 1 THEN Head(texts)
    ELSE Head(texts) \o sep \o Join(Tail(texts), sep)

\* language === 'hi' ? row.<field>_hi : row.<field>_en
Description(symptom, language) ==
    IF language = "hi" THEN symptom.description_hi ELSE symptom.description_en
QuestionText(q, language) ==
    IF language = "hi" THEN q.question_hi ELSE q.question_en

(***************************************************************************)
(* Symptom extractor.                                                      *)
(***************************************************************************)
\* the rows the symptoms query returns: all of them, or those mapped to a
\* disease of the crop when the crop has diseases and they have mappings
CandidateSymptoms(cropId) ==
    LET diseaseIds == { diseases[i].id :
                          i \in { k \in 1..Len(diseases) : diseases[k].crop_id = cropId } }
        symptomIds == { symptom_disease_mapping[i].symptom_id :
                          i \in { k \in 1..Len(symptom_disease_mapping) :
                                    symptom_disease_mapping[k].disease_id \in diseaseIds } }
        Relevant(s) == s.id \in symptomIds
    IN  IF cropId # Undefined /\ diseaseIds # {} /\ symptomIds # {}
        THEN SelectSeq(symptoms, Relevant)
        ELSE symptoms

detectSymptoms(message, language, cropId) ==
    LET messageLower == toLowerCase(message)
        Matches(symptom) ==
            \E keyword \in extractKeywords(Description(symptom, language)) :
                includes(messageLower, toLowerCase(keyword))
    IN  SelectSeq(CandidateSymptoms(cropId), Matches)

(***************************************************************************)
(* Belief aggregator.                                                      *)
(***************************************************************************)
\* 1.0, the ceiling of a score
One == 20

\* a handler that stored the codes of the latest message only
latestSymptoms(detectedSymptoms, symptomMatches) ==
    [i \in 1..Len(symptomMatches) |-> symptomMatches[i].symptom_code]

\* the push loop of the handler: codes not yet present are appended
RECURSIVE mergeSymptoms(_, _)
mergeSymptoms(detectedSymptoms, symptomMatches) ==
    IF symptomMatches = <<>> THEN detectedSymptoms
    ELSE LET code == Head(symptomMatches).symptom_code
         IN  mergeSymptoms(
                 IF code \in Range(detectedSymptoms) THEN detectedSymptoms
                 ELSE Append(detectedSymptoms, code),
                 Tail(symptomMatches))

\* an aggregator that added the weight itself
undampened(weight) == weight

\* weight * 0.5
dampen(weight) == weight \div 2

RECURSIVE accumulate(_, _)
\* the loop over the mapping rows: diseaseProbabilities[diseaseId] += weight * 0.5
accumulate(mappings, diseaseProbabilities) ==
    IF mappings = <<>> THEN diseaseProbabilities
    ELSE LET diseaseId == Head(mappings).disease_id
             weight == Head(mappings).probability_weight
             before == IF diseaseId \in DOMAIN diseaseProbabilities
                       THEN diseaseProbabilities[diseaseId] ELSE 0
         IN  accumulate(Tail(mappings),
                 [d \in DOMAIN diseaseProbabilities \cup {diseaseId} |->
                     IF d = diseaseId THEN before + dampen(weight)
                     ELSE diseaseProbabilities[d]])

\* an aggregator without the ceiling
unclamped(diseaseProbabilities) == diseaseProbabilities

\* the loop Math.min(diseaseProbabilities[diseaseId], 1.0)
clamp(diseaseProbabilities) ==
    [d \in DOMAIN diseaseProbabilities |-> Min(diseaseProbabilities[d], One)]

calculateDiseaseProbabilities(supabase, detectedSymptoms) ==
    IF Len(detectedSymptoms) = 0 THEN EmptyObject
    ELSE IF supabase.symptomsError THEN EmptyObject
    ELSE
      LET symptomIds == { supabase.symptoms[i].id :
                            i \in { k \in 1..Len(supabase.symptoms) :
                                      supabase.symptoms[k].symptom_code
                                          \in Range(detectedSymptoms) } }
          Selected(mapping) == mapping.symptom_id \in symptomIds
      IN  IF symptomIds = {} THEN EmptyObject
          ELSE IF supabase.mappingsError THEN EmptyObject
          ELSE clamp(accumulate(SelectSeq(supabase.symptom_disease_mapping, Selected),
                                EmptyObject))

\* Math.max(...Object.values(probabilities)), for a non-empty object
MaxProb(probabilities) ==
    CHOOSE m \in { probabilities[d] : d \in DOMAIN probabilities } :
        \A d \in DOMAIN probabilities : probabilities[d] <= m

(***************************************************************************)
(* Question selector.                                                      *)
(***************************************************************************)
\* a selector that read the questions in the order of the table
tableOrder(questions) == questions

\* .order('priority', { ascending: false })
OrderByPriority(questions) ==
    CHOOSE sorted \in [1..Len(questions) -> Range(questions)] :
        /\ Range(sorted) = Range(questions)
        /\ \A i \in 1..(Len(questions) - 1) : sorted[i].priority >= sorted[i + 1].priority

\* a selector that compared whole messages with the question
askedVerbatim(askedQuestions, questionText) ==
    \E i \in 1..Len(askedQuestions) : askedQuestions[i] = questionText

\* askedQuestions.some(asked => asked.includes(questionText))
alreadyAsked(askedQuestions, questionText) ==
    \E i \in 1..Len(askedQuestions) : includes(askedQuestions[i], questionText)

RECURSIVE firstQualifying(_, _, _, _)
\* the loop over the ordered questions, up to its first return
firstQualifying(questions, detectedSymptoms, askedQuestions, language) ==
    IF questions = <<>> THEN <<>>
    ELSE LET q == Head(questions)
             hasMatchingSymptom == q.trigger_symptoms \cap Range(detectedSymptoms) # {}
             questionText == QuestionText(q, language)
         IN  IF hasMatchingSymptom /\ ~alreadyAsked(askedQuestions, questionText)
             THEN << [question |-> questionText, code |-> q.question_code] >>
             ELSE firstQualifying(Tail(questions), detectedSymptoms, askedQuestions, language)

\* the next question as a sequence: empty for null, else the one question
getNextQuestion(detectedSymptoms, conversationHistory, language) ==
    LET IsAssistant(m) == m.role = "assistant"
        assistant == SelectSeq(conversationHistory, IsAssistant)
        askedQuestions == [i \in 1..Len(assistant) |-> assistant[i].content]
    IN  firstQualifying(OrderByPriority(diagnostic_questions), detectedSymptoms,
                        askedQuestions, language)

(***************************************************************************)
(* State.                                                                  *)
(***************************************************************************)
VARIABLES
    conversations,  \* table conversations: session_id -> row
    advisories,     \* table advisories: rows in insertion order
    user_queries,   \* table user_queries: a bag of rows
    response,       \* the response of the latest request
    agg,            \* SpecAgg only: one call of calculateDiseaseProbabilities
    inflight,       \* SpecRace only: the turns between their read and their write
    steps,          \* SpecSteps only: one composition of action steps
    app,            \* SpecApp only: the state of the client's AppContent
    ask             \* SpecQuestions only: one call of getNextQuestion

vars ==
    <<conversations, advisories, user_queries, response, agg, inflight, steps, app, ask>>

\* what the two handlers neither read nor write
beside == <<agg, inflight, steps, app, ask>>

Users == {"u1"}
SessionIds == {"sA", "sB"}
Languages == {"en", "hi"}
CropIds == {Undefined, "wheat", "rice"}
KbOutcomes == {"ok", "symptomsError", "mappingsError"}

\* the request messages
Messages == {
    <<"o","k">>,
    <<"O","r","a","n","g","e"," ","s","p","o","t","s"," ","r","a","t","u","a">>,
    <<"c","u","r","l">>,
    <<"w","i","l","t">>,
    <<"p","a","l","e">> }

\* confidenceScore < 0.6
EscalationThreshold == 12
\* maxProb < 0.75
ReadyThreshold == 15
\* confidenceScore >= 0.8
HighThreshold == 16

NoResponse ==
    [handler |-> "none", status |-> 0, error |-> "", conversationId |-> Undefined,
     nextQuestion |-> <<>>, advisory |-> <<>>]

AggIdle == [supabase |-> KnowledgeBase("ok"), detectedSymptoms |-> <<>>, result |-> <<>>]

\* turns that reached the end of the handler: the rows of user_queries
TurnsTaken ==
    LET Count[Q \in SUBSET DOMAIN user_queries] ==
            IF Q = {} THEN 0
            ELSE LET q == CHOOSE x \in Q : TRUE
                 IN  user_queries[q] + Count[Q \ {q}]
    IN  Count[DOMAIN user_queries]

\* the values of the variables a specification does not use
NoInflight == <<>>
StepsIdle == [treatment |-> <<>>, result |-> <<>>, composed |-> FALSE]
AppIdle == [state |-> "landing", sessionId |-> Undefined, conversationId |-> Undefined,
            diagnoses |-> 0, turns |-> 0, loading |-> FALSE]
AskIdle ==
    [detectedSymptoms |-> <<>>, conversationHistory |-> <<>>, language |-> "en",
     result |-> <<>>, returned |-> FALSE]

\* the message of a request body that has none (a text of one symbol)
NoMessage == <<Undefined>>

\* the write of a request that fails, if one does
TurnFaults == {"none", "create", "update"}
AdvisoryFaults == {"none", "insert", "status"}

(***************************************************************************)
(* chat-orchestrator.                                                      *)
(***************************************************************************)
\* the row the handler inserts for a session it has not seen
NewConversation(user, sessionId, language, cropId) ==
    [id |-> sessionId, session_id |-> sessionId, user_id |-> user,
     language |-> language, crop_id |-> cropId,
     conversation_history |-> <<>>, detected_symptoms |-> <<>>,
     current_probabilities |-> EmptyObject, status |-> "active"]

\* a handler that took the first entry without sorting
anyDisease(probabilities) == DOMAIN probabilities

\* Object.entries(probabilities).sort((a, b) => b[1] - a[1])[0]: an entry
\* whose score no other exceeds; among equal scores the object's key order
\* decides, which the source does not fix
TopDiseases(probabilities) ==
    { d \in DOMAIN probabilities :
        \A e \in DOMAIN probabilities : probabilities[e] <= probabilities[d] }

RECURSIVE Descriptions(_, _)
\* symptomMatches.map(s => language === 'hi' ? s.description_hi : s.description_en)
Descriptions(symptomMatches, language) ==
    IF symptomMatches = <<>> THEN <<>>
    ELSE <<Description(Head(symptomMatches), language)>>
         \o Descriptions(Tail(symptomMatches), language)

\* the assembly of responseText; historyLength is conversationHistory.length
\* after the user message was pushed, diseaseData whether the row of the top
\* disease was read
ResponseText(historyLength, symptomMatches, nextQuestion, probabilities, language, diseaseData) ==
    LET intro == IF historyLength = 1 THEN IntroText(language) ELSE <<>>
        symptomNames == Join(Descriptions(symptomMatches, language), Comma)
        acknowledgment == NoticedText(language) \o symptomNames
        acknowledged ==
            IF Len(symptomMatches) > 0
            THEN (IF intro # <<>> THEN intro \o Break \o acknowledgment ELSE acknowledgment)
            ELSE intro
    IN  IF nextQuestion # <<>> THEN acknowledged \o Break \o nextQuestion[1].question
        ELSE IF DOMAIN probabilities # {}
        THEN (IF diseaseData /\ MaxProb(probabilities) > EscalationThreshold
              THEN acknowledged \o Break \o IdentifiedText(language)
              ELSE acknowledged)
        ELSE IF historyLength = 1 THEN acknowledged \o Break \o PromptText(language)
        ELSE acknowledged

\* a handler that still asked at the ready threshold
askAtReadyThreshold(detectedSymptoms, probabilities, conversationHistory, language) ==
    IF /\ Len(detectedSymptoms) > 0
       /\ DOMAIN probabilities # {}
       /\ MaxProb(probabilities) <= ReadyThreshold
    THEN getNextQuestion(detectedSymptoms, conversationHistory, language)
    ELSE <<>>

\* nextQuestion of the handler: asked for only with evidence below the ready
\* threshold
selectQuestion(detectedSymptoms, probabilities, conversationHistory, language) ==
    IF /\ Len(detectedSymptoms) > 0
       /\ DOMAIN probabilities # {}
       /\ MaxProb(probabilities) < ReadyThreshold
    THEN getNextQuestion(detectedSymptoms, conversationHistory, language)
    ELSE <<>>

\* the answer after the handler threw: its catch block reads body, which is
\* declared inside the try block, so the runtime answers for it
TurnError(conversationId) ==
    [NoResponse EXCEPT !.handler = "chat-orchestrator", !.status = 500,
                       !.error = "Internal Server Error",
                       !.conversationId = conversationId]

\* the handler after authentication (each \E over a one-element set names a
\* local constant of the handler; the read of the top disease's row, made
\* only for the closing sentence, succeeds or fails)
HandleTurn(user, sessionId, message, language, cropId, kb, failing) ==
  IF failing = "create"
  THEN \* createError is thrown: no row is inserted
       /\ sessionId \notin DOMAIN conversations
       /\ response' = TurnError(Undefined)
       /\ UNCHANGED <<conversations, advisories, user_queries>>
  ELSE
    \E conversation \in
          { IF sessionId \in DOMAIN conversations THEN conversations[sessionId]
            ELSE NewConversation(user, sessionId, language, cropId) } :
    IF message = NoMessage
    THEN \* message.toLowerCase() throws, after the row was looked up or inserted
         /\ conversations' = (sessionId :> conversation) @@ conversations
         /\ response' = TurnError(Undefined)
         /\ UNCHANGED <<advisories, user_queries>>
    ELSE
    \E withUser \in
          { Append(conversation.conversation_history,
                   [role |-> "user", content |-> message]) } :
    \E symptomMatches \in { detectSymptoms(message, language, cropId) } :
    \E detectedSymptoms \in
          { mergeSymptoms(conversation.detected_symptoms, symptomMatches) } :
    \E probabilities \in
          { calculateDiseaseProbabilities(KnowledgeBase(kb), detectedSymptoms) } :
    \E nextQuestion \in
          { selectQuestion(detectedSymptoms, probabilities, withUser, language) } :
    \E diseaseData \in
          IF /\ nextQuestion = <<>>
             /\ DOMAIN probabilities # {}
             /\ MaxProb(probabilities) > EscalationThreshold
          THEN BOOLEAN ELSE {TRUE} :
    \E responseText \in
          { ResponseText(Len(withUser), symptomMatches, nextQuestion, probabilities,
                         language, diseaseData) } :
      LET conversationHistory ==
              Append(withUser, [role |-> "assistant", content |-> responseText])
          query == [conversation_id |-> conversation.id, user_id |-> user,
                    query_text |-> message, language |-> language]
      IN  /\ conversations' =
                 (sessionId :> IF failing = "update"
                               THEN \* the result of the update is not looked at
                                    conversation
                               ELSE [conversation EXCEPT
                                       !.conversation_history = conversationHistory,
                                       !.detected_symptoms = detectedSymptoms,
                                       !.current_probabilities = probabilities])
                 @@ conversations
          /\ user_queries' =
                 (query :> (IF query \in DOMAIN user_queries
                            THEN user_queries[query] + 1 ELSE 1))
                 @@ user_queries
          /\ response' = [NoResponse EXCEPT
                            !.handler = "chat-orchestrator", !.status = 200,
                            !.conversationId = conversation.id,
                            !.nextQuestion = nextQuestion]
          /\ UNCHANGED advisories

(***************************************************************************)
(* generate-advisory.                                                      *)
(***************************************************************************)
\* a handler without the empty-probabilities check
neverNoDiagnosis(probabilities) == FALSE

\* a handler that also refused evidence below the escalation threshold
weakOrNoDiagnosis(probabilities) ==
    DOMAIN probabilities = {} \/ MaxProb(probabilities) < EscalationThreshold

\* Object.keys(probabilities).length === 0
noDiagnosis(probabilities) == DOMAIN probabilities = {}

\* a handler that escalated at the threshold itself
escalateAtThreshold(confidenceScore) == confidenceScore <= EscalationThreshold

\* confidenceScore < 0.6
shouldEscalate(confidenceScore) == confidenceScore < EscalationThreshold

\* a handler whose High band started above the threshold
highAboveThreshold(confidenceScore, language) ==
    IF confidenceScore > HighThreshold
    THEN (IF language = "hi" THEN "Ucch" ELSE "High")
    ELSE IF confidenceScore >= EscalationThreshold
    THEN (IF language = "hi" THEN "Madhyam" ELSE "Moderate")
    ELSE (IF language = "hi" THEN "Kam" ELSE "Low")

\* confidenceLevelText, in the request language (Hindi transliterated)
confidenceLevel(confidenceScore, language) ==
    IF confidenceScore >= HighThreshold
    THEN (IF language = "hi" THEN "Ucch" ELSE "High")
    ELSE IF confidenceScore >= EscalationThreshold
    THEN (IF language = "hi" THEN "Madhyam" ELSE "Moderate")
    ELSE (IF language = "hi" THEN "Kam" ELSE "Low")

\* AdvisoryDisplay: the colour of the confidence badge
confidenceColor(confidenceScore) ==
    IF confidenceScore >= HighThreshold THEN "green"
    ELSE IF confidenceScore >= EscalationThreshold THEN "yellow"
    ELSE "red"

ErrorResponse(status, error, conversationId) ==
    [NoResponse EXCEPT !.handler = "generate-advisory", !.status = status,
                       !.error = error, !.conversationId = conversationId]

\* the handler after authentication
RequestAdvisory(user, conversationId, language, diseaseFound, failing) ==
    IF conversationId \notin DOMAIN conversations
    THEN /\ response' = ErrorResponse(500, "Conversation not found", conversationId)
         /\ UNCHANGED <<conversations, advisories, user_queries>>
    ELSE
      LET conversation == conversations[conversationId]
          probabilities == conversation.current_probabilities
      IN  IF noDiagnosis(probabilities)
          THEN /\ response' = ErrorResponse(400, "No diagnosis available yet",
                                             conversationId)
               /\ UNCHANGED <<conversations, advisories, user_queries>>
          ELSE IF TopDiseases(probabilities) = {}
          THEN \* destructuring sortedDiseases[0], which is undefined, throws
               /\ response' = ErrorResponse(500, "TypeError", conversationId)
               /\ UNCHANGED <<conversations, advisories, user_queries>>
          ELSE IF ~diseaseFound
          THEN /\ response' = ErrorResponse(500, "Disease information not found",
                                             conversationId)
               /\ UNCHANGED <<conversations, advisories, user_queries>>
          ELSE
            \E topDiseaseId \in TopDiseases(probabilities) :
              LET confidenceScore == probabilities[topDiseaseId]
                  escalated == shouldEscalate(confidenceScore)
                  advisory ==
                      [conversation_id |-> conversationId, user_id |-> user,
                       disease_id |-> topDiseaseId,
                       confidence_score |-> confidenceScore,
                       language |-> language, escalated |-> escalated]
              IN  \* neither the insert's nor the update's result is looked at
                  /\ advisories' = IF failing = "insert" THEN advisories
                                   ELSE Append(advisories, advisory)
                  /\ conversations' =
                         IF failing = "status" THEN conversations
                         ELSE [conversations EXCEPT
                                 ![conversationId].status =
                                     IF escalated THEN "escalated" ELSE "completed"]
                  /\ response' =
                         [NoResponse EXCEPT
                            !.handler = "generate-advisory", !.status = 200,
                            !.conversationId = conversationId,
                            !.advisory =
                                << [confidenceScore |-> confidenceScore,
                                    confidenceLevel |->
                                        confidenceLevel(confidenceScore, language),
                                    escalated |-> escalated] >>]
                  /\ UNCHANGED user_queries

(***************************************************************************)
(* Specification of the engine.                                            *)
(***************************************************************************)
Init ==
    /\ conversations = [s \in {} |-> NewConversation("u1", s, "en", Undefined)]
    /\ advisories = <<>>
    /\ user_queries = [q \in {} |-> 0]
    /\ response = NoResponse
    /\ agg = AggIdle
    /\ inflight = NoInflight
    /\ steps = StepsIdle
    /\ ask = AskIdle
    /\ app = AppIdle

\* the requests of the users and sessions given, within the bounds
Requests(users, sessionIds, messages, languages, cropIds, kbs, turnFaults, advisoryFaults) ==
    \/ /\ TurnsTaken < MaxTurns
       /\ \E user \in users, sessionId \in sessionIds, message \in messages,
             language \in languages, cropId \in cropIds, kb \in kbs,
             failing \in turnFaults :
               HandleTurn(user, sessionId, message, language, cropId, kb, failing)
       /\ UNCHANGED beside
    \/ /\ Len(advisories) < MaxAdvisories
       /\ \E user \in users, conversationId \in sessionIds,
             language \in languages, diseaseFound \in BOOLEAN,
             failing \in advisoryFaults :
               RequestAdvisory(user, conversationId, language, diseaseFound, failing)
       /\ UNCHANGED beside

\* the requests of one user with a message, every write succeeding
Step(sessionIds, languages, cropIds) ==
    Requests(Users, sessionIds, Messages, languages, cropIds, KbOutcomes, {"none"}, {"none"})

\* one session, both languages, no crop selected
Next == Step({"sA"}, Languages, {Undefined})

Spec == Init /\ [][Next]_vars

\* two sessions, English, no crop selected
NextPair == Step(SessionIds, {"en"}, {Undefined})

SpecPair == Init /\ [][NextPair]_vars

\* one session, English, with or without a crop: wheat has a disease, rice
\* has none in the knowledge base
NextCrop == Step({"sA"}, {"en"}, CropIds)

SpecCrop == Init /\ [][NextCrop]_vars

\* the request bodies of SpecFaults: two symptoms, and a body without message
FaultMessages == { <<"c","u","r","l">>, <<"w","i","l","t">>, NoMessage }

\* one session, English, no crop selected; a write of a request may fail
NextFaults ==
    Requests(Users, {"sA"}, FaultMessages, {"en"}, {Undefined}, KbOutcomes, TurnFaults, AdvisoryFaults)

SpecFaults == Init /\ [][NextFaults]_vars

\* two authenticated users who know the same session_id
Callers == {"u1", "u2"}

NextCallers ==
    Requests(Callers, {"sA"}, FaultMessages \ {NoMessage}, {"en"}, {Undefined}, KbOutcomes, {"none"}, {"none"})

SpecCallers == Init /\ [][NextCallers]_vars

\* one session while the knowledge base cannot be read: every read that
\* calculateDiseaseProbabilities makes fails
NextOutage ==
    Requests(Users, {"sA"}, Messages, Languages, {Undefined}, KbOutcomes \ {"ok"}, {"none"}, {"none"})

SpecOutage == Init /\ [][NextOutage]_vars

(***************************************************************************)
(* Specification of overlapping turns: a chat-orchestrator request is two  *)
(* steps, from its start to the conversation row it reads (or inserts),    *)
(* and from there to its update and response.  Reads and writes succeed.   *)
(***************************************************************************)
\* the requests that may be in flight together
Racers == {1, 2}

\* an update that took a stored row whatever its session
firstConversation(sessionId) ==
    conversations[CHOOSE s \in DOMAIN conversations : TRUE]

\* the row of conversations now stored for a session
StoredConversation(sessionId) == conversations[sessionId]

\* lines 762-790: select by session_id, insert when there is no row
ReadTurn(r, user, sessionId, message, language, cropId) ==
    /\ r \notin DOMAIN inflight
    /\ \E conversation \in
          { IF sessionId \in DOMAIN conversations THEN conversations[sessionId]
            ELSE NewConversation(user, sessionId, language, cropId) } :
          /\ conversations' = (sessionId :> conversation) @@ conversations
          /\ inflight' = (r :> [phase |-> "read", user |-> user,
                                sessionId |-> sessionId, message |-> message,
                                language |-> language, cropId |-> cropId,
                                conversation |-> conversation,
                                detected |-> {}])
                         @@ inflight
    /\ UNCHANGED <<advisories, user_queries, response, agg, steps, app, ask>>

\* lines 792-916: the turn computed from the row that was read, the update of
\* the three columns of the row now stored, the response
WriteTurn(r) ==
    /\ r \in DOMAIN inflight
    /\ inflight[r].phase = "read"
    /\ \E request \in { inflight[r] } :
       \E withUser \in
          { Append(request.conversation.conversation_history,
                   [role |-> "user", content |-> request.message]) } :
       \E symptomMatches \in
          { detectSymptoms(request.message, request.language, request.cropId) } :
       \E detectedSymptoms \in
          { mergeSymptoms(request.conversation.detected_symptoms, symptomMatches) } :
       \E probabilities \in
          { calculateDiseaseProbabilities(KnowledgeBase("ok"), detectedSymptoms) } :
       \E nextQuestion \in
          { selectQuestion(detectedSymptoms, probabilities, withUser,
                           request.language) } :
       \E responseText \in
          { ResponseText(Len(withUser), symptomMatches, nextQuestion, probabilities,
                         request.language, TRUE) } :
         LET query == [conversation_id |-> request.conversation.id,
                       user_id |-> request.user,
                       query_text |-> request.message,
                       language |-> request.language]
         IN  /\ conversations' =
                    [conversations EXCEPT
                       ![request.sessionId] =
                           [StoredConversation(request.sessionId) EXCEPT
                              !.conversation_history =
                                  Append(withUser, [role |-> "assistant",
                                                    content |-> responseText]),
                              !.detected_symptoms = detectedSymptoms,
                              !.current_probabilities = probabilities]]
             /\ user_queries' =
                    (query :> (IF query \in DOMAIN user_queries
                               THEN user_queries[query] + 1 ELSE 1))
                    @@ user_queries
             /\ response' = [NoResponse EXCEPT
                               !.handler = "chat-orchestrator", !.status = 200,
                               !.conversationId = request.conversation.id,
                               !.nextQuestion = nextQuestion]
             /\ inflight' =
                    [inflight EXCEPT
                       ![r].phase = "done",
                       ![r].detected =
                           { symptomMatches[i].symptom_code :
                               i \in 1..Len(symptomMatches) }]
    /\ UNCHANGED <<advisories, agg, steps, app, ask>>

NextRace ==
    \/ \E r \in Racers, user \in Users, message \in Messages :
          ReadTurn(r, user, "sA", message, "en", Undefined)
    \/ \E r \in Racers : WriteTurn(r)

SpecRace == Init /\ [][NextRace]_vars

\* the session of each of two requests that may overlap
SessionOf(r) == IF r = 1 THEN "sA" ELSE "sB"

\* one turn in each of two sessions, overlapping in any order, and the
\* advisory requests of either session
NextRacePair ==
    \/ \E r \in Racers, user \in Users, message \in Messages, language \in Languages :
          ReadTurn(r, user, SessionOf(r), message, language, Undefined)
    \/ \E r \in Racers : WriteTurn(r)
    \/ /\ Len(advisories) < MaxAdvisories
       /\ \E user \in Users, conversationId \in SessionIds, diseaseFound \in BOOLEAN :
             RequestAdvisory(user, conversationId, "en", diseaseFound, "none")
       /\ UNCHANGED beside

SpecRacePair == Init /\ [][NextRacePair]_vars

(***************************************************************************)
(* Specification of calculateDiseaseProbabilities alone: one call on a     *)
(* weight table and an evidence list drawn from a bounded family.          *)
(***************************************************************************)
\* the rows a symptom may have in the table: none, one, or one per disease
\* (at most one per pair, as UNIQUE(symptom_id, disease_id) requires)
AggRowChoices ==
    { <<>>,
      << [disease_id |-> "d1", probability_weight |-> 18] >>,
      << [disease_id |-> "d1", probability_weight |-> 16] >>,
      << [disease_id |-> "d1", probability_weight |-> 6],
         [disease_id |-> "d2", probability_weight |-> 20] >>,
      << [disease_id |-> "d2", probability_weight |-> 0] >> }

AggSymptoms == SubSeq(symptoms, 1, MaxAggSymptoms)

RECURSIVE AggRows(_, _)
\* the table in which symptom i has the rows choice[i]
AggRows(choice, i) ==
    IF i > MaxAggSymptoms THEN <<>>
    ELSE [k \in 1..Len(choice[i]) |->
             [symptom_id |-> AggSymptoms[i].id,
              disease_id |-> choice[i][k].disease_id,
              probability_weight |-> choice[i][k].probability_weight]]
         \o AggRows(choice, i + 1)

AggCodes == { AggSymptoms[i].symptom_code : i \in 1..MaxAggSymptoms } \cup {"unknown"}

\* evidence lists: codes without repetition, in any order
AggEvidence ==
    { e \in UNION { [1..n -> AggCodes] : n \in 0..MaxAggSymptoms } :
        \A i, j \in 1..Len(e) : e[i] = e[j] => i = j }

InitAgg ==
    /\ conversations = [s \in {} |-> NewConversation("u1", s, "en", Undefined)]
    /\ advisories = <<>>
    /\ user_queries = [q \in {} |-> 0]
    /\ response = NoResponse
    /\ inflight = NoInflight
    /\ steps = StepsIdle
    /\ ask = AskIdle
    /\ app = AppIdle
    /\ \E choice \in [1..MaxAggSymptoms -> AggRowChoices], evidence \in AggEvidence :
          agg = [supabase |-> [symptoms |-> AggSymptoms,
                               symptom_disease_mapping |-> AggRows(choice, 1),
                               symptomsError |-> FALSE,
                               mappingsError |-> FALSE],
                 detectedSymptoms |-> evidence,
                 result |-> <<>>]

\* one call, in which the reads succeed or one of them fails
Aggregate(kb) ==
    /\ agg.result = <<>>
    /\ agg' = [agg EXCEPT
                 !.supabase.symptomsError = (kb = "symptomsError"),
                 !.supabase.mappingsError = (kb = "mappingsError"),
                 !.result = << calculateDiseaseProbabilities(
                                  [agg.supabase EXCEPT
                                     !.symptomsError = (kb = "symptomsError"),
                                     !.mappingsError = (kb = "mappingsError")],
                                  agg.detectedSymptoms) >>]
    /\ UNCHANGED <<conversations, advisories, user_queries, response>>
    /\ UNCHANGED <<inflight, steps, app, ask>>

NextAgg == \E kb \in KbOutcomes : Aggregate(kb)

SpecAgg == InitAgg /\ [][NextAgg]_vars

(***************************************************************************)
(* Specification of the action steps: the treatment text of a disease is   *)
(* cut into the steps of the advisory (generate-advisory, lines 536-544).  *)
(* A text is a sequence of characters.                                     *)
(***************************************************************************)
\* the longest treatment text enumerated
MaxTextLen == 5

\* the characters \d matches
Digits == {"0", "1", "2", "3", "4", "5", "6", "7", "8", "9"}

\* the characters of the enumerated texts: two digits, the dot, the blank
\* and a letter
StepChars == {"1", "2", ".", " ", "a"}

\* the treatment text of Scenario D
ScenarioD ==
    <<"1","."," ","A","p","p","l","y"," ","f","u","n","g","i","c","i","d",
      "e"," ","2","."," ","R","e","m","o","v","e"," ","i","n","f","e","c",
      "t","e","d"," ","l","e","a","v","e","s"," ","3","."," ","M","o","n",
      "i","t","o","r"," ","w","e","e","k","l","y">>

Treatments ==
    UNION { [1..n -> StepChars] : n \in 0..MaxTextLen } \cup {ScenarioD}

RECURSIVE digitRun(_, _)
\* the number of digits of text from position i on
digitRun(text, i) ==
    IF i <= Len(text) /\ text[i] \in Digits THEN 1 + digitRun(text, i + 1) ELSE 0

\* the length of the match of /\d+\./ that starts at position i, 0 if none
matchLength(text, i) ==
    LET n == digitRun(text, i)
    IN  IF n > 0 /\ i + n <= Len(text) /\ text[i + n] = "." THEN n + 1 ELSE 0

RECURSIVE splitFrom(_, _, _)
\* String.prototype.split from position i on, fragment being the text since
\* the last match: the pieces between the matches, empty ones included
splitFrom(text, i, fragment) ==
    IF i > Len(text) THEN << fragment >>
    ELSE IF matchLength(text, i) > 0
    THEN << fragment >> \o splitFrom(text, i + matchLength(text, i), <<>>)
    ELSE splitFrom(text, i + 1, Append(fragment, text[i]))

RECURSIVE trimStart(_)
trimStart(text) ==
    IF text # <<>> /\ Head(text) = " " THEN trimStart(Tail(text)) ELSE text

RECURSIVE trimEnd(_)
trimEnd(text) ==
    IF text # <<>> /\ text[Len(text)] = " "
    THEN trimEnd(SubSeq(text, 1, Len(text) - 1)) ELSE text

\* String.prototype.trim
trim(text) == trimEnd(trimStart(text))

\* a handler that kept the empty fragments
keepEmptyFragments(treatment) == splitFrom(treatment, 1, <<>>)

\* treatment.split(/\d+\./).filter((s) => s.trim().length > 0)
treatmentSteps(treatment) ==
    SelectSeq(splitFrom(treatment, 1, <<>>), LAMBDA f : Len(trim(f)) > 0)

\* treatmentSteps.map((step, index) => ({ step: index + 1, action: step.trim() }))
actionSteps(treatment) ==
    LET fragments == treatmentSteps(treatment)
    IN  [ index \in 1..Len(fragments) |->
            [step |-> index, action |-> trim(fragments[index])] ]

InitSteps ==
    /\ conversations = [s \in {} |-> NewConversation("u1", s, "en", Undefined)]
    /\ advisories = <<>>
    /\ user_queries = [q \in {} |-> 0]
    /\ response = NoResponse
    /\ agg = AggIdle
    /\ inflight = NoInflight
    /\ app = AppIdle
    /\ ask = AskIdle
    /\ \E treatment \in Treatments :
          steps = [StepsIdle EXCEPT !.treatment = treatment]

\* the advisory's steps are composed from the treatment text
ComposeSteps ==
    /\ ~steps.composed
    /\ steps' = [steps EXCEPT !.result = actionSteps(steps.treatment),
                              !.composed = TRUE]
    /\ UNCHANGED <<conversations, advisories, user_queries, response, agg,
                   inflight, app, ask>>

NextSteps == ComposeSteps

SpecSteps == InitSteps /\ [][NextSteps]_vars

(***************************************************************************)
(* Specification of the question selector: one call of getNextQuestion on  *)
(* the question bank, for the detected symptoms, the history and the       *)
(* language of a turn.                                                     *)
(***************************************************************************)
\* the longest history enumerated
MaxHistory == 2

\* the detected symptoms of a call: the codes that trigger a question, and
\* one that triggers none, in the order of the catalog
AskCodes == <<"orange_pustules", "rust_spots", "leaf_curl", "wilting">>

RECURSIVE AskSymptoms(_, _)
\* the codes of a set, from position i of AskCodes on
AskSymptoms(codes, i) ==
    IF i > Len(AskCodes) THEN <<>>
    ELSE (IF AskCodes[i] \in codes THEN << AskCodes[i] >> ELSE <<>>)
             \o AskSymptoms(codes, i + 1)

\* the messages of a history: an assistant message is the text of a question
\* in either language, or the introduction; a user message repeats the text
\* of a question
AskMessages ==
    { [role |-> "assistant", content |-> QuestionText(diagnostic_questions[i], language)] :
        i \in 1..Len(diagnostic_questions), language \in Languages }
    \cup { [role |-> "assistant", content |-> IntroText("en")],
           [role |-> "user", content |-> QuestionText(diagnostic_questions[2], "en")] }

AskHistories == UNION { [1..n -> AskMessages] : n \in 0..MaxHistory }

InitQuestions ==
    /\ conversations = [s \in {} |-> NewConversation("u1", s, "en", Undefined)]
    /\ advisories = <<>>
    /\ user_queries = [q \in {} |-> 0]
    /\ response = NoResponse
    /\ agg = AggIdle
    /\ inflight = NoInflight
    /\ steps = StepsIdle
    /\ app = AppIdle
    /\ \E codes \in SUBSET Range(AskCodes), conversationHistory \in AskHistories,
          language \in Languages :
          ask = [AskIdle EXCEPT !.detectedSymptoms = AskSymptoms(codes, 1),
                                !.conversationHistory = conversationHistory,
                                !.language = language]

\* the call and its return value
AskNextQuestion ==
    /\ ~ask.returned
    /\ ask' = [ask EXCEPT !.result = getNextQuestion(ask.detectedSymptoms,
                                                     ask.conversationHistory,
                                                     ask.language),
                          !.returned = TRUE]
    /\ UNCHANGED <<conversations, advisories, user_queries, response, agg,
                   inflight, steps, app>>

NextQuestions == AskNextQuestion

SpecQuestions == InitQuestions /\ [][NextQuestions]_vars

(***************************************************************************)
(* Specification of the application: one mounted AppContent of one user,   *)
(* who starts a chat, sends messages, asks for the advisory and starts a   *)
(* new diagnosis.  The requests are in English, with every write and the   *)
(* advisory's disease lookup as they come.                                 *)
(***************************************************************************)
\* line 45: the session id is made when the component mounts
InitApp ==
    /\ conversations = [s \in {} |-> NewConversation("u1", s, "en", Undefined)]
    /\ advisories = <<>>
    /\ user_queries = [q \in {} |-> 0]
    /\ response = NoResponse
    /\ agg = AggIdle
    /\ inflight = NoInflight
    /\ steps = StepsIdle
    /\ ask = AskIdle
    /\ app = [AppIdle EXCEPT !.sessionId = "sA"]

\* handleStart, then handleCharacterisationComplete or
\* handleSkipCharacterisation: the chat is shown
handleStart ==
    /\ app.state = "landing"
    /\ app' = [app EXCEPT !.state = "chat", !.turns = 0]
    /\ UNCHANGED <<conversations, advisories, user_queries, response, agg,
                   inflight, steps, ask>>

\* the chat sends a message with the session id it was given
sendMessage ==
    /\ app.state = "chat"
    /\ TurnsTaken < MaxTurns
    /\ \E message \in Messages, kb \in KbOutcomes :
          HandleTurn("u1", app.sessionId, message, "en", Undefined, kb, "none")
    /\ app' = [app EXCEPT !.turns = @ + 1]
    /\ UNCHANGED <<agg, inflight, steps, ask>>

\* handleReadyForAdvisory(convId), with the conversation id of the last
\* answer of the chat
handleReadyForAdvisory ==
    /\ app.state = "chat"
    /\ app.turns > 0
    /\ response.handler = "chat-orchestrator" /\ response.status = 200
    /\ app' = [app EXCEPT !.state = "advisory", !.loading = TRUE,
                          !.conversationId = response.conversationId]
    /\ UNCHANGED <<conversations, advisories, user_queries, response, agg,
                   inflight, steps, ask>>

\* AdvisoryDisplay.loadAdvisory
loadAdvisory ==
    /\ app.state = "advisory" /\ app.loading
    /\ Len(advisories) < MaxAdvisories
    /\ \E diseaseFound \in BOOLEAN :
          RequestAdvisory("u1", app.conversationId, "en", diseaseFound, "none")
    /\ app' = [app EXCEPT !.loading = FALSE]
    /\ UNCHANGED <<agg, inflight, steps, ask>>

\* lines 148-152
handleNewDiagnosis ==
    /\ app.state = "advisory" /\ ~app.loading
    /\ app' = [app EXCEPT !.state = "landing", !.conversationId = Undefined,
                          !.diagnoses = @ + 1]
    /\ UNCHANGED <<conversations, advisories, user_queries, response, agg,
                   inflight, steps, ask>>

NextApp ==
    \/ handleStart
    \/ sendMessage
    \/ handleReadyForAdvisory
    \/ loadAdvisory
    \/ handleNewDiagnosis

SpecApp == InitApp /\ [][NextApp]_vars

(***************************************************************************)
(* Properties.                                                             *)
(***************************************************************************)
Conversation(s) == conversations[s]

\* the history of a session before a step, empty for a session not yet seen
PriorHistory(s) ==
    IF s \in DOMAIN conversations THEN conversations[s].conversation_history ELSE <<>>

\* C1: no turn and no advisory request removes a symptom code: the codes
\* stored for a conversation after a step include those stored before it,
\* and no conversation disappears.
MonotonicEvidence ==
    [][\A s \in DOMAIN conversations :
          /\ s \in DOMAIN conversations'
          /\ Range(conversations[s].detected_symptoms)
                 \subseteq Range(conversations'[s].detected_symptoms)]_vars

\* a second turn has added wilting to the two codes of the first turn
MonotonicEvidenceWitness ==
    \E s \in DOMAIN conversations :
        /\ Len(Conversation(s).conversation_history) = 4
        /\ Conversation(s).detected_symptoms
               = <<"orange_pustules", "rust_spots", "wilting">>

\* C2: in every reachable state the stored current_probabilities is the
\* result of recomputing over the stored detected_symptoms and the weight
\* table.
FullRecomputation ==
    \A s \in DOMAIN conversations :
        Conversation(s).current_probabilities
            = calculateDiseaseProbabilities(KnowledgeBase("ok"),
                                            Conversation(s).detected_symptoms)

\* C3: two conversations holding the same set of symptom codes hold the
\* same current_probabilities.
OrderIndependence ==
    \A s, t \in DOMAIN conversations :
        Range(Conversation(s).detected_symptoms)
            = Range(Conversation(t).detected_symptoms)
        => Conversation(s).current_probabilities
               = Conversation(t).current_probabilities

\* C4: every stored score lies in [0, 1].
Bounding ==
    \A s \in DOMAIN conversations :
        \A d \in DOMAIN Conversation(s).current_probabilities :
            Conversation(s).current_probabilities[d] \in 0..One

\* three symptoms support wheat rust with 0.45 + 0.35 + 0.3, stored as 1.0
BoundingWitness ==
    \E s \in DOMAIN conversations :
        /\ {"orange_pustules", "rust_spots", "wilting"}
               \subseteq Range(Conversation(s).detected_symptoms)
        /\ "d1" \in DOMAIN Conversation(s).current_probabilities
        /\ Conversation(s).current_probabilities["d1"] = One

\* the rows of a table for the symptoms whose codes are in the evidence
EvidenceRows(supabase, evidence) ==
    { r \in Range(supabase.symptom_disease_mapping) :
        \E i \in 1..Len(supabase.symptoms) :
            /\ supabase.symptoms[i].id = r.symptom_id
            /\ supabase.symptoms[i].symptom_code \in Range(evidence) }

RECURSIVE SumWeights(_)
SumWeights(rows) ==
    IF rows = {} THEN 0
    ELSE LET r == CHOOSE x \in rows : TRUE
         IN  r.probability_weight + SumWeights(rows \ {r})

\* the mapping the aggregation is specified to return
ExpectedScores(supabase, evidence) ==
    LET rows == EvidenceRows(supabase, evidence)
    IN  [d \in { r.disease_id : r \in rows } |->
            Min(One, SumWeights({ r \in rows : r.disease_id = d }) \div 2)]

\* C5: a call of the aggregator returns the mapping whose keys are the
\* diseases with a weight row for a symptom of the evidence, each with
\* min(1, sum of weight * 0.5); for empty evidence the mapping is empty.
AggregationResult ==
    agg.result # <<>> =>
        /\ agg.result[1] = ExpectedScores(agg.supabase, agg.detectedSymptoms)
        /\ agg.detectedSymptoms = <<>> => agg.result[1] = EmptyObject

\* the same, for the calls in which both reads succeeded
AggregationResultOfReads ==
    (/\ agg.result # <<>>
     /\ ~agg.supabase.symptomsError
     /\ ~agg.supabase.mappingsError) =>
        /\ agg.result[1] = ExpectedScores(agg.supabase, agg.detectedSymptoms)
        /\ agg.detectedSymptoms = <<>> => agg.result[1] = EmptyObject

\* C6: an advisory row is inserted with escalated = true exactly when the
\* top score of its conversation is below 0.6, and carries that score.
EscalationRule ==
    [][Len(advisories') = Len(advisories) + 1 =>
          LET advisory == advisories'[Len(advisories')]
              top == MaxProb(conversations[advisory.conversation_id]
                                 .current_probabilities)
          IN  /\ advisory.confidence_score = top
              /\ advisory.escalated <=> top < EscalationThreshold
              /\ response'.advisory[1].escalated = advisory.escalated]_vars

\* an advisory at exactly 0.6, not escalated
EscalationRuleWitness ==
    \E i \in 1..Len(advisories) :
        /\ advisories[i].confidence_score = EscalationThreshold
        /\ ~advisories[i].escalated
        /\ Conversation(advisories[i].conversation_id).status = "completed"

\* C7: the text of the question a turn returns is contained in no assistant
\* message stored for the conversation before that turn.
QuestionNonRepetition ==
    [][\A s \in DOMAIN conversations' :
          (/\ response'.handler = "chat-orchestrator"
           /\ response'.conversationId = s
           /\ Len(conversations'[s].conversation_history) > Len(PriorHistory(s))
           /\ response'.nextQuestion # <<>>)
          => \A i \in 1..Len(PriorHistory(s)) :
                 PriorHistory(s)[i].role = "assistant"
                 => ~includes(PriorHistory(s)[i].content,
                              response'.nextQuestion[1].question)]_vars

\* the second turn returns the water question: the spread question was asked
\* in the first turn and its text contains that of the onset question
QuestionNonRepetitionWitness ==
    /\ response.handler = "chat-orchestrator"
    /\ response.nextQuestion # <<>>
    /\ response.nextQuestion[1].code = "q_water"
    /\ response.conversationId \in DOMAIN conversations
    /\ LET history == Conversation(response.conversationId).conversation_history
       IN  /\ Len(history) = 4
           /\ includes(history[2].content, <<"S","p","r","e","a","d","?">>)
           /\ includes(history[2].content, <<"W","h","e","n","?">>)
           /\ {"leaf_curl", "wilting"}
                  \subseteq Range(Conversation(response.conversationId).detected_symptoms)

\* C8: an advisory request for a conversation with empty current_probabilities
\* is answered with the no-diagnosis error, inserts no advisory and changes no
\* conversation (its status stays as it was).
NoEvidenceFailure ==
    [][\A s \in DOMAIN conversations :
          (/\ response'.handler = "generate-advisory"
           /\ response'.conversationId = s
           /\ DOMAIN conversations[s].current_probabilities = {})
          => /\ response'.status = 400
             /\ response'.error = "No diagnosis available yet"
             /\ response'.advisory = <<>>
             /\ advisories' = advisories
             /\ conversations' = conversations]_vars

\* the refusal for a conversation that has no symptoms and is active
NoEvidenceFailureWitness ==
    /\ response.handler = "generate-advisory"
    /\ response.status = 400
    /\ advisories = <<>>
    /\ response.conversationId \in DOMAIN conversations
    /\ Conversation(response.conversationId).detected_symptoms = <<>>
    /\ Conversation(response.conversationId).status = "active"

\* C9 as stated: the no-diagnosis error is returned only for a conversation
\* without recorded symptoms.
NoEvidenceOnlyWithoutSymptoms ==
    (/\ response.handler = "generate-advisory"
     /\ response.conversationId \in DOMAIN conversations
     /\ response.error = "No diagnosis available yet")
    => Conversation(response.conversationId).detected_symptoms = <<>>

\* the refusal of a conversation whose one symptom, yellowing, has no weight
\* row, its stored scores being the recomputed ones
UnweightedSymptomRefused ==
    /\ response.handler = "generate-advisory"
    /\ response.error = "No diagnosis available yet"
    /\ response.conversationId \in DOMAIN conversations
    /\ Conversation(response.conversationId).detected_symptoms = <<"yellowing">>
    /\ FullRecomputation

\* C9: the no-diagnosis error is returned exactly when current_probabilities
\* is empty; with a score stored and the disease row read, the request
\* returns an advisory, below 0.6 a Low and escalated one.
NoEvidenceIffNoScores ==
    (/\ response.handler = "generate-advisory"
     /\ response.conversationId \in DOMAIN conversations)
    => LET probabilities ==
               Conversation(response.conversationId).current_probabilities
       IN  /\ response.error = "No diagnosis available yet"
                 <=> DOMAIN probabilities = {}
           /\ (DOMAIN probabilities # {}
               /\ response.error # "Disease information not found")
              => /\ response.status = 200
                 /\ response.advisory # <<>>
                 /\ response.advisory[1].confidenceScore = MaxProb(probabilities)
                 /\ MaxProb(probabilities) < EscalationThreshold
                    => /\ response.advisory[1].confidenceLevel \in {"Low", "Kam"}
                       /\ response.advisory[1].escalated

\* an advisory from the single symptom leaf_curl of weight 0.3: 0.15, Low,
\* escalated
NoEvidenceIffNoScoresWitness ==
    /\ response.handler = "generate-advisory"
    /\ response.status = 200
    /\ response.conversationId \in DOMAIN conversations
    /\ Conversation(response.conversationId).detected_symptoms = <<"leaf_curl">>
    /\ response.advisory
           = << [confidenceScore |-> 3, confidenceLevel |-> "Low",
                 escalated |-> TRUE] >>

\* C10: a status of completed or escalated is never changed by a later step.
TerminalStatus ==
    [][\A s \in DOMAIN conversations :
          conversations[s].status \in {"completed", "escalated"}
          => /\ s \in DOMAIN conversations'
             /\ conversations'[s].status = conversations[s].status]_vars

\* C11: a request_advisory answered with an advisory, for a conversation that
\* was active, leaves the status escalated when the advisory is escalated and
\* completed otherwise.
StatusFollowsAdvisory ==
    [][\A s \in DOMAIN conversations :
          (/\ response'.handler = "generate-advisory"
           /\ response'.status = 200
           /\ response'.conversationId = s
           /\ conversations[s].status = "active")
          => conversations'[s].status
                 = IF response'.advisory[1].escalated THEN "escalated"
                   ELSE "completed"]_vars

\* C12: at most one advisory row exists for each conversation_id.
OneAdvisoryPerConversation ==
    \A i, j \in 1..Len(advisories) :
        advisories[i].conversation_id = advisories[j].conversation_id => i = j

\* C13: every turn stored and every advisory composed was requested by the
\* user who created the conversation it was applied to.
ConversationOwnership ==
    /\ \A q \in DOMAIN user_queries :
           q.conversation_id \in DOMAIN conversations
           => conversations[q.conversation_id].user_id = q.user_id
    /\ \A i \in 1..Len(advisories) :
           conversations[advisories[i].conversation_id].user_id
               = advisories[i].user_id

\* C14: once the turns of a session have all been answered, the stored
\* history holds the messages of every one of them and the stored
\* detected_symptoms the symptoms each of them detected.
NoLostUpdate ==
    (/\ DOMAIN inflight # {}
     /\ \A r \in DOMAIN inflight : inflight[r].phase = "done")
    => /\ Len(Conversation("sA").conversation_history)
              = 2 * Cardinality(DOMAIN inflight)
       /\ \A r \in DOMAIN inflight :
              /\ \E i \in 1..Len(Conversation("sA").conversation_history) :
                     Conversation("sA").conversation_history[i]
                         = [role |-> "user", content |-> inflight[r].message]
              /\ inflight[r].detected
                     \subseteq Range(Conversation("sA").detected_symptoms)

\* the same, for two turns of which the second started after the first was
\* answered
NoLostUpdateSerially ==
    (/\ DOMAIN inflight = Racers
     /\ \A r \in Racers : inflight[r].phase = "done"
     /\ \E r \in Racers :
            Len(inflight[r].conversation.conversation_history) = 2)
    => /\ Len(Conversation("sA").conversation_history) = 4
       /\ \A r \in DOMAIN inflight :
              inflight[r].detected
                  \subseteq Range(Conversation("sA").detected_symptoms)

\* C15: a turn answered with success has stored its two history entries in
\* the conversation it names, and a turn answered with an error has created
\* and changed no conversation.
AllOrNothingTurn ==
    [][response'.handler = "chat-orchestrator" =>
          IF response'.status = 200
          THEN LET s == response'.conversationId
               IN  /\ s \in DOMAIN conversations'
                   /\ Len(conversations'[s].conversation_history)
                          = Len(PriorHistory(s)) + 2
          ELSE conversations' = conversations]_vars

\* the first half alone: success implies the history was stored
SuccessImpliesStored ==
    [][(response'.handler = "chat-orchestrator" /\ response'.status = 200)
          => Len(conversations'[response'.conversationId].conversation_history)
                 = Len(PriorHistory(response'.conversationId)) + 2]_vars

\* the second half alone: an error implies no conversation row was created
ErrorImpliesNothingStored ==
    [][(response'.handler = "chat-orchestrator" /\ response'.status # 200)
          => conversations' = conversations]_vars

\* C16: while the knowledge base cannot be read, a turn that has evidence to
\* score (so that a read is made, and fails) is answered with an error and
\* leaves the stored conversation as it was.
ReadFailureSurfaced ==
    [][\A s \in DOMAIN conversations' :
          (/\ response'.handler = "chat-orchestrator"
           /\ response'.conversationId = s
           /\ Len(conversations'[s].conversation_history) > Len(PriorHistory(s))
           /\ conversations'[s].detected_symptoms # <<>>)
          => /\ response'.status # 200
             /\ s \in DOMAIN conversations
             /\ conversations'[s] = conversations[s]]_vars

\* the advisory of the response, when the last request composed one
ComposedAdvisory == response.advisory[1]

\* the language of the request that composed it
ComposedLanguage == advisories[Len(advisories)].language

\* the name of a confidence level in a language
LevelName(level, language) ==
    IF language = "hi"
    THEN (CASE level = "High" -> "Ucch" [] level = "Moderate" -> "Madhyam"
            [] OTHER -> "Kam")
    ELSE level

\* C17: every composed advisory with top score s has the level High when
\* s >= 0.8, Moderate when 0.6 <= s < 0.8 and Low when s < 0.6 (named in the
\* language of the request), and the display colours it by the same bands.
ConfidenceBanding ==
    (response.handler = "generate-advisory" /\ response.status = 200) =>
        LET s == ComposedAdvisory.confidenceScore
            level == IF s >= 16 THEN "High"
                     ELSE IF 12 <= s /\ s < 16 THEN "Moderate"
                     ELSE "Low"
        IN  /\ ComposedAdvisory.confidenceLevel = LevelName(level, ComposedLanguage)
            /\ confidenceColor(s) = (CASE level = "High" -> "green"
                                       [] level = "Moderate" -> "yellow"
                                       [] OTHER -> "red")

\* an advisory composed with the top score exactly 0.8 is High
ConfidenceBandingWitness ==
    /\ response.handler = "generate-advisory"
    /\ response.status = 200
    /\ ComposedAdvisory.confidenceScore = 16
    /\ ComposedAdvisory.confidenceLevel = "High"

\* position i of text belongs to a "<digits>." marker: a digit whose run of
\* digits ends at a dot, or a dot that follows a digit
IsMarker(text, i) ==
    \/ /\ text[i] \in Digits
       /\ \E j \in (i + 1)..Len(text) :
             text[j] = "." /\ \A k \in i..(j - 1) : text[k] \in Digits
    \/ text[i] = "." /\ i > 1 /\ text[i - 1] \in Digits

\* the positions of the content of text: neither marker nor blank
ContentAt(text) ==
    { i \in 1..Len(text) : ~IsMarker(text, i) /\ text[i] # " " }

\* no marker lies from position i to position j
SameFragment(text, i, j) == \A m \in i..j : ~IsMarker(text, m)

\* the positions at which the content of a fragment begins
FragmentStarts(text) ==
    { i \in ContentAt(text) :
        \A j \in ContentAt(text) : j < i => ~SameFragment(text, j, i) }

\* the k-th position of a set of positions
Nth(positions, k) ==
    CHOOSE i \in positions : Cardinality({ j \in positions : j <= i }) = k

\* the position at which the content of the fragment begun at i ends
FragmentEnd(text, i) ==
    CHOOSE j \in ContentAt(text) :
        /\ j >= i /\ SameFragment(text, i, j)
        /\ \A m \in ContentAt(text) :
              (m >= i /\ SameFragment(text, i, m)) => m <= j

\* the steps of Scenario D
ScenarioDSteps ==
    << [step |-> 1, action |->
           <<"A","p","p","l","y"," ","f","u","n","g","i","c","i","d","e">>],
       [step |-> 2, action |->
           <<"R","e","m","o","v","e"," ","i","n","f","e","c","t","e","d",
             " ","l","e","a","v","e","s">>],
       [step |-> 3, action |->
           <<"M","o","n","i","t","o","r"," ","w","e","e","k","l","y">>] >>

\* C18: the composed action steps are the non-empty trimmed fragments of the
\* treatment text between its "<digits>." markers, in their order, numbered
\* 1, 2, ..., k whatever the numbers in the text; the text of Scenario D
\* gives exactly its three steps.
ActionStepsNumbered ==
    steps.composed =>
        LET text == steps.treatment
            starts == FragmentStarts(text)
        IN  /\ Len(steps.result) = Cardinality(starts)
            /\ \A k \in 1..Len(steps.result) :
                  /\ steps.result[k].step = k
                  /\ steps.result[k].action # <<>>
                  /\ steps.result[k].action =
                         SubSeq(text, Nth(starts, k),
                                FragmentEnd(text, Nth(starts, k)))
            /\ (text = ScenarioD => steps.result = ScenarioDSteps)

\* the steps of Scenario D have been composed
ActionStepsNumberedWitness ==
    /\ steps.composed
    /\ steps.treatment = ScenarioD
    /\ Len(steps.result) = 3

\* a text whose only number is 2 has given the steps 1 and 2
RenumberedSteps ==
    /\ steps.composed
    /\ steps.treatment = <<"a", " ", "2", ".", "a">>
    /\ Len(steps.result) = 2
    /\ steps.result[2].step = 2

\* C19: after an advisory has been shown and the user has chosen New
\* Diagnosis, the first turn of the next chat makes a fresh conversation,
\* active and with this turn alone in it; it is not applied to a conversation
\* that was already stored.
NewDiagnosisNewConversation ==
    [][(/\ app.state = "chat" /\ app.diagnoses > 0 /\ app.turns = 0
        /\ app'.turns = 1
        /\ response'.status = 200)
       => LET s == response'.conversationId
          IN  /\ s \notin DOMAIN conversations
              /\ conversations'[s].status = "active"
              /\ Len(conversations'[s].conversation_history) = 2]_vars

\* the part of C19 about the stored state: a chat begun after a new diagnosis
\* never shows a turn of a conversation that is completed or escalated
NextChatIsActive ==
    (app.state = "chat" /\ app.diagnoses > 0 /\ app.turns > 0
     /\ response.status = 200)
        => conversations[response.conversationId].status = "active"

\* C20: a turn returns a next question only when the conversation has
\* detected symptoms and its maximum disease score is strictly below 0.75
\* (15 twentieths); when the maximum score is 0.75 or more the turn returns
\* no question.
ReadyThresholdRule ==
    (response.handler = "chat-orchestrator" /\ response.status = 200) =>
        LET c == Conversation(response.conversationId)
            scores == { c.current_probabilities[d] : d \in DOMAIN c.current_probabilities }
        IN  /\ response.nextQuestion # <<>> =>
                  /\ c.detected_symptoms # <<>>
                  /\ \A x \in scores : x < 15
            /\ (\E x \in scores : x >= 15) => response.nextQuestion = <<>>

\* a turn with the maximum score exactly 0.75 and a question of the bank not
\* yet asked whose trigger is among the detected symptoms: none is returned
ReadyThresholdRuleWitness ==
    /\ response.handler = "chat-orchestrator" /\ response.status = 200
    /\ LET c == Conversation(response.conversationId)
       IN  /\ DOMAIN c.current_probabilities # {}
           /\ MaxProb(c.current_probabilities) = 15
           /\ \A language \in Languages :
                 getNextQuestion(c.detected_symptoms,
                                 SubSeq(c.conversation_history, 1,
                                        Len(c.conversation_history) - 1),
                                 language) # <<>>
    /\ response.nextQuestion = <<>>

\* a question of the bank qualifies for a call: one of its trigger symptoms
\* is detected, and its text in the language of the call is part of no
\* assistant message of the history
Qualifies(q, call) ==
    /\ \E code \in q.trigger_symptoms :
          \E i \in 1..Len(call.detectedSymptoms) : call.detectedSymptoms[i] = code
    /\ \A i \in 1..Len(call.conversationHistory) :
          call.conversationHistory[i].role = "assistant"
          => ~includes(call.conversationHistory[i].content,
                       QuestionText(q, call.language))

AllAskedWitness ==
    /\ ask.returned
    /\ ask.result = <<>>
    /\ \E q \in Range(diagnostic_questions) :
          q.trigger_symptoms \cap Range(ask.detectedSymptoms) # {}

\* C22: the disease_id and confidence_score of an advisory, when it is
\* recorded, are a key of the conversation's current_probabilities and its
\* value, and no disease of current_probabilities has a greater score.
TopDiseaseRecorded ==
    [][Len(advisories') > Len(advisories) =>
          LET advisory == advisories'[Len(advisories')]
              probabilities ==
                  conversations[advisory.conversation_id].current_probabilities
          IN  /\ advisory.disease_id \in DOMAIN probabilities
              /\ advisory.confidence_score = probabilities[advisory.disease_id]
              /\ ~ \E other \in DOMAIN probabilities :
                      probabilities[other] > advisory.confidence_score]_vars

\* an advisory is recorded for a conversation with two scored diseases, of
\* which the other has the lower score
TopDiseaseRecordedWitness ==
    /\ response.handler = "generate-advisory" /\ response.status = 200
    /\ advisories # <<>>
    /\ LET advisory == advisories[Len(advisories)]
           probabilities ==
               conversations[advisory.conversation_id].current_probabilities
       IN  /\ Cardinality(DOMAIN probabilities) = 2
           /\ advisory.confidence_score = probabilities[advisory.disease_id]
           /\ \E other \in DOMAIN probabilities :
                 probabilities[other] < advisory.confidence_score

\* the session a step of SpecRacePair works for: that of the request whose
\* phase changes, else that of the request answered
StepSession ==
    IF inflight' # inflight
    THEN SessionOf(CHOOSE r \in Racers :
                      r \in DOMAIN inflight'
                      /\ (r \notin DOMAIN inflight \/ inflight'[r] # inflight[r]))
    ELSE response'.conversationId

\* a step leaves the conversation of every other session as it was
OtherSessionsUnchanged ==
    \A s \in DOMAIN conversations :
        s # StepSession => s \in DOMAIN conversations' /\ conversations'[s] = conversations[s]

\* the conversation of a session whose turn has been answered is the one
\* this turn alone makes of a new conversation, and its status the one its
\* own advisory gave it
AsIfAlone(r) ==
    LET c == Conversation(SessionOf(r))
        composed == \E i \in 1..Len(advisories) :
                        advisories[i].conversation_id = SessionOf(r)
    IN  /\ Len(c.conversation_history) = 2
        /\ c.conversation_history[1] = [role |-> "user", content |-> inflight[r].message]
        /\ Range(c.detected_symptoms) = inflight[r].detected
        /\ c.current_probabilities
               = calculateDiseaseProbabilities(KnowledgeBase("ok"), c.detected_symptoms)
        /\ c.status = IF ~composed THEN "active"
                      ELSE IF MaxProb(c.current_probabilities) < 12 THEN "escalated"
                      ELSE "completed"

\* C23: whatever the interleaving of the turns of two sessions, a step for one
\* session leaves the history, detected_symptoms, current_probabilities and
\* status of the other unchanged, and each session ends in the state its own
\* turn gives it alone.
SessionIndependence ==
    /\ [][OtherSessionsUnchanged]_vars
    /\ [](\A r \in Racers :
              (r \in DOMAIN inflight /\ inflight[r].phase = "done") => AsIfAlone(r))

\* both sessions were read before either was written, both turns are
\* answered, and one session has its advisory
SessionIndependenceWitness ==
    /\ DOMAIN inflight = Racers
    /\ \A r \in Racers :
          /\ inflight[r].phase = "done"
          /\ inflight[r].conversation.conversation_history = <<>>
          /\ inflight[r].detected # {}
    /\ Conversation("sA").status = "completed"
    /\ Conversation("sB").status = "active"
    /\ Conversation("sA").current_probabilities # Conversation("sB").current_probabilities

\* a symptom code is linked through the weight table to a disease of a crop
LinkedToCrop(code, cropId) ==
    \E i \in 1..Len(symptoms), j \in 1..Len(symptom_disease_mapping),
       k \in 1..Len(diseases) :
        /\ symptoms[i].symptom_code = code
        /\ symptom_disease_mapping[j].symptom_id = symptoms[i].id
        /\ diseases[k].id = symptom_disease_mapping[j].disease_id
        /\ diseases[k].crop_id = cropId

\* C24: a turn that opens a conversation with a crop_id detects only symptoms
\* linked through the weight table to a disease of that crop.
CropNarrowing ==
    [][\A s \in DOMAIN conversations' :
          (/\ s \notin DOMAIN conversations
           /\ conversations'[s].crop_id # Undefined)
          => \A code \in Range(conversations'[s].detected_symptoms) :
                 LinkedToCrop(code, conversations'[s].crop_id)]_vars

\* the same for wheat, which has a disease with weight rows
CropNarrowingOfWheat ==
    [][\A s \in DOMAIN conversations' :
          (/\ s \notin DOMAIN conversations
           /\ conversations'[s].crop_id = "wheat")
          => \A code \in Range(conversations'[s].detected_symptoms) :
                 LinkedToCrop(code, "wheat")]_vars

\* C25: a conversation with exactly one detected symptom has every disease
\* score at most 0.5 (10 twentieths), below the ready threshold of 0.75, and
\* an advisory composed from it is of Low confidence and escalated.
SingleSymptomDampening ==
    \A s \in DOMAIN conversations :
        Len(Conversation(s).detected_symptoms) = 1 =>
            /\ \A d \in DOMAIN Conversation(s).current_probabilities :
                  /\ Conversation(s).current_probabilities[d] <= 10
                  /\ Conversation(s).current_probabilities[d] < 15
            /\ (/\ response.handler = "generate-advisory"
                /\ response.status = 200
                /\ response.conversationId = s)
               => /\ ComposedAdvisory.confidenceLevel \in {"Low", "Kam"}
                  /\ ComposedAdvisory.escalated

\* an advisory composed for a conversation whose one symptom scores 0.45
SingleSymptomDampeningWitness ==
    /\ response.handler = "generate-advisory" /\ response.status = 200
    /\ Len(Conversation(response.conversationId).detected_symptoms) = 1
    /\ ComposedAdvisory.confidenceScore = 9
    /\ ComposedAdvisory.escalated

\* the same bound for one call of the aggregator on any table with at most
\* one row per pair, weights up to 1.0 included
SingleSymptomAggregate ==
    (agg.result # <<>> /\ Len(agg.detectedSymptoms) = 1) =>
        \A d \in DOMAIN agg.result[1] : agg.result[1][d] <= 10

\* a single symptom of weight 1.0 scores exactly 0.5
SingleSymptomAggregateWitness ==
    /\ agg.result # <<>>
    /\ Len(agg.detectedSymptoms) = 1
    /\ \E d \in DOMAIN agg.result[1] : agg.result[1][d] = 10

\* C26: no assistant message stored in a history is empty.
AssistantMessageNonEmpty ==
    \A s \in DOMAIN conversations :
        \A i \in 1..Len(Conversation(s).conversation_history) :
            Conversation(s).conversation_history[i].role = "assistant"
            => Conversation(s).conversation_history[i].content # <<>>

\* the other part of C26: the message of a turn that returns no question ends
\* with the recommendation offer or with the open prompt
FallThroughOffered ==
    [][\A s \in DOMAIN conversations' :
          (/\ response'.handler = "chat-orchestrator"
           /\ response'.status = 200
           /\ response'.conversationId = s
           /\ response'.nextQuestion = <<>>)
          => LET history == conversations'[s].conversation_history
                 content == history[Len(history)].content
             IN  \E language \in Languages :
                    \/ includes(content, IdentifiedText(language))
                    \/ includes(content, PromptText(language))]_vars

\* the message of the catch block of chat-orchestrator
TryAgainMessage == "An error occurred while processing your request. Please try again."

\* C27: a turn in which a step threw is answered by the catch block, with
\* status 500 and the generic try-again message.
CatchBlockAnswers ==
    (response.handler = "chat-orchestrator" /\ response.status # 200) =>
        /\ response.status = 500
        /\ response.error = TryAgainMessage

\* the crop_id of the row of a disease
DiseaseCrop(diseaseId) ==
    diseases[CHOOSE k \in 1..Len(diseases) : diseases[k].id = diseaseId].crop_id

\* C28: the disease of an advisory recorded for a conversation that has a
\* crop_id is a disease of that crop.
AdvisoryMatchesCrop ==
    [][Len(advisories') > Len(advisories) =>
          LET advisory == advisories'[Len(advisories')]
              conversation == conversations[advisory.conversation_id]
          IN  conversation.crop_id # Undefined
              => DiseaseCrop(advisory.disease_id) = conversation.crop_id]_vars

\* the parenthesis of C28: every disease scored in a conversation that has a
\* crop_id is a disease of that crop
ScoresMatchCrop ==
    \A s \in DOMAIN conversations :
        Conversation(s).crop_id # Undefined
        => \A d \in DOMAIN Conversation(s).current_probabilities :
               DiseaseCrop(d) = Conversation(s).crop_id

\* C29: a conversation whose status is completed or escalated has an
\* advisory stored for its conversation_id.
TerminalHasAdvisory ==
    \A s \in DOMAIN conversations :
        Conversation(s).status \in {"completed", "escalated"}
        => \E i \in 1..Len(advisories) :
               advisories[i].conversation_id = Conversation(s).id

\* text ends with suffix
EndsWith(text, suffix) ==
    /\ Len(suffix) <= Len(text)
    /\ SubSeq(text, Len(text) - Len(suffix) + 1, Len(text)) = suffix

\* a question of the bank was returned in a turn of the history, in either
\* language: an assistant message ends with its text after a paragraph break
ReturnedBefore(q, history) ==
    \E i \in 1..Len(history), language \in Languages :
        /\ history[i].role = "assistant"
        /\ EndsWith(history[i].content, Break \o QuestionText(q, language))

\* C30: the question a turn returns was returned by no earlier turn of the
\* conversation, whatever the languages of the turns.
QuestionAskedOnce ==
    [][\A s \in DOMAIN conversations' :
          (/\ response'.handler = "chat-orchestrator"
           /\ response'.status = 200
           /\ response'.conversationId = s
           /\ Len(conversations'[s].conversation_history) > Len(PriorHistory(s))
           /\ response'.nextQuestion # <<>>)
          => \A k \in 1..Len(diagnostic_questions) :
                 diagnostic_questions[k].question_code = response'.nextQuestion[1].code
                 => ~ReturnedBefore(diagnostic_questions[k], PriorHistory(s))]_vars

====
